---- MODULE Spec2Model ----
(***************************************************************************)
(* Model of app.py, the Streamlit front-end of the Turtil resume / role-fit *)
(* evaluator: the file-to-text helpers, the form, and the submit handler    *)
(* that posts to the backend and renders its answer.                        *)
(*                                                                          *)
(* Streamlit runs the script top to bottom on every interaction.  Widgets   *)
(* inside st.form send their values to the script only when the form is     *)
(* submitted, so the user edits the widgets (pc = "edit") and a script run  *)
(* (Submit, or Ping from the sidebar) reads them and produces the page      *)
(* (pc = "shown").  The variables calls, extracted, shown, posts, resp,     *)
(* parsed and crash describe the page of the latest run; they are reset     *)
(* when the user starts editing for the next one.                           *)
(*                                                                          *)
(* Lines 10 and 25 of app.py read `_future_` and `_file_`; the model takes  *)
(* them as `__future__` and `__file__`, so that the script gets past its    *)
(* imports.                                                                 *)
(***************************************************************************)
EXTENDS Integers, Sequences, FiniteSets, TLC

VARIABLES
    resume_text_box,  \* value of the text_area with key "resume_text_box"
    jd_text_box,      \* value of the text_area with key "jd_text"
    resume_file,      \* <<>> (None) or <<f>>, the file_uploader's UploadedFile
    pc,               \* "edit": user is filling the form; "shown": a run ended
    submitted,        \* form_submit_button value of the latest run
    calls,            \* readers invoked by the latest run, in order
    extracted,        \* <<>> or <<s>>: return value of extract_text_safe
    shown,            \* elements the latest run put on the page, in order
    posts,            \* JSON bodies POSTed to /evaluate by the latest run
    resp,             \* <<>> or <<r>>: what requests.post met in the run
    parsed,           \* TRUE iff the latest run called r.json()
    crash             \* <<>> or <<e>>: exception that escaped the script

vars == <<resume_text_box, jd_text_box, resume_file, pc, submitted, calls,
          extracted, shown, posts, resp, parsed, crash>>

-----------------------------------------------------------------------------
(* Bounds *)

\* longest text the user types into a text area
MaxLen == 1

-----------------------------------------------------------------------------
(* Python values *)

Range(s) == {s[i] : i \in 1..Len(s)}

\* Optional[str]: None, or a str (a sequence of characters)
NONE == [none |-> TRUE, s |-> <<>>]
Some(s) == [none |-> FALSE, s |-> s]

\* truth value of an Optional[str] in `if text:` / `if not text:`
Truthy(o) == ~o.none /\ o.s # <<>>

IsSpace(c) == c \in {" ", "\n"}

RECURSIVE LStrip(_)
LStrip(s) == IF s # <<>> /\ IsSpace(Head(s)) THEN LStrip(Tail(s)) ELSE s

RECURSIVE RStrip(_)
RStrip(s) ==
    IF s # <<>> /\ IsSpace(s[Len(s)]) THEN RStrip(SubSeq(s, 1, Len(s) - 1))
    ELSE s

\* str.strip()
Strip(s) == RStrip(LStrip(s))

\* str.lower() on a file name, kept as <<stem, extension>>
LowerTok(t) ==
    CASE t = ".PDF" -> ".pdf"
      [] t = ".DOCX" -> ".docx"
      [] t = "CV" -> "cv"
      [] OTHER -> t

Lower(name) == [i \in 1..Len(name) |-> LowerTok(name[i])]

\* str.endswith(suffix)
EndsWith(name, suffix) == name # <<>> /\ name[Len(name)] = suffix

\* dict.get(key, default)
Get(d, k, default) == IF k \in DOMAIN d THEN d[k] ELSE default

-----------------------------------------------------------------------------
(* Inputs *)

Chars == {" ", "a"}

SeqsUpTo(n) == UNION {[1..k -> Chars] : k \in 0..n}

\* what the user can type
Texts == SeqsUpTo(MaxLen)

\* what a parsing library does with some bytes: raise, or return a str
\* (empty, whitespace only as for a scanned PDF, or padded text)
LibOutcomes ==
    {[raises |-> TRUE, text |-> <<>>]} \cup
    {[raises |-> FALSE, text |-> t] :
        t \in {<<>>, <<"\n">>, <<" ", "a">>}}

Raises == [raises |-> TRUE, text |-> <<>>]

ReaderNames == {"pymupdf", "pypdf2", "pdfminer", "docx"}

\* b"": every library raises on it
EmptyData == [size |-> 0, lib |-> [r \in ReaderNames |-> Raises]]

\* the bytes of a file, up to what the four libraries make of them: a
\* PDF-like content (python-docx rejects it), a DOCX-like content (the PDF
\* libraries reject it), or the empty file
Datas ==
    {EmptyData} \cup
    {[size |-> 1,
      lib |-> [r \in ReaderNames |->
                 CASE r = "pymupdf" -> a
                   [] r = "pypdf2" -> b
                   [] r = "pdfminer" -> c
                   [] OTHER -> Raises]] :
        a \in LibOutcomes, b \in LibOutcomes, c \in LibOutcomes} \cup
    {[size |-> 1,
      lib |-> [r \in ReaderNames |-> IF r = "docx" THEN d ELSE Raises]] :
        d \in LibOutcomes}

FileNames ==
    {<<"cv", ".pdf">>, <<"CV", ".PDF">>, <<"cv", ".docx">>, <<"cv", ".txt">>,
     <<"cv", ".pdf", ".txt">>, <<"cv">>}

\* an UploadedFile: a named byte stream with a read position
Files == {[name |-> n, data |-> d, pos |-> 0] : n \in FileNames, d \in Datas}

-----------------------------------------------------------------------------
(* File-to-text helpers *)

\* try: return <library text>  except Exception: return None
Guarded(o) == IF o.raises THEN NONE ELSE Some(o.text)

_read_pdf_pymupdf(data) == Guarded(data.lib["pymupdf"])

_read_pdf_pypdf2(data) == Guarded(data.lib["pypdf2"])

_read_pdf_pdfminer(data) == Guarded(data.lib["pdfminer"])

_read_docx(data) == Guarded(data.lib["docx"])

Reader(r, data) ==
    CASE r = "pymupdf" -> _read_pdf_pymupdf(data)
      [] r = "pypdf2" -> _read_pdf_pypdf2(data)
      [] r = "pdfminer" -> _read_pdf_pdfminer(data)
      [] OTHER -> _read_docx(data)

\* the tuple the for loop of extract_text_safe iterates over
PdfReaders == <<"pymupdf", "pypdf2", "pdfminer">>

\* for reader in (...): text = reader(data); if text: break
RECURSIVE PdfLoop(_, _, _, _)
PdfLoop(data, i, text, called) ==
    IF i > Len(PdfReaders) THEN [text |-> text, calls |-> called]
    ELSE LET t == Reader(PdfReaders[i], data)
             c == Append(called, PdfReaders[i])
         IN IF Truthy(t) THEN [text |-> t, calls |-> c]
            ELSE PdfLoop(data, i + 1, t, c)

\* uploaded_file.read(): the bytes from the read position to the end
StreamRead(f) ==
    [data |-> IF f.pos = 0 THEN f.data ELSE EmptyData,
     file |-> [f EXCEPT !.pos = f.data.size]]

\* uploaded_file.seek(0)
SeekNone(f) == f

Seek0(f) == [f EXCEPT !.pos = 0]

IsPdf(name) == EndsWith(name, ".pdf")

IsDocxElse(name) == TRUE

IsDocx(name) == EndsWith(name, ".docx")

\* st.warning / st.success / st.error / ... : one element of the page
Element(kind, msg, arg) == [kind |-> kind, msg |-> msg, arg |-> arg]

CouldNotRead(f) == Element("warning", "could_not_read", f.name)

extract_text_safe(uploaded_file) ==
    LET rd == StreamRead(uploaded_file)
        data == rd.data
        name == Lower(uploaded_file.name)
        got == IF IsPdf(name) THEN PdfLoop(data, 1, NONE, <<>>)
               ELSE IF IsDocx(name)
                    THEN [text |-> _read_docx(data), calls |-> <<"docx">>]
                    ELSE [text |-> NONE, calls |-> <<>>]
        failed == ~Truthy(got.text)
        text == IF failed THEN <<>> ELSE got.text.s
    IN [ret |-> Strip(text),
        calls |-> got.calls,
        shown |-> IF failed THEN <<CouldNotRead(uploaded_file)>> ELSE <<>>,
        file |-> Seek0(rd.file)]

-----------------------------------------------------------------------------
(* The backend, as requests.post meets it *)

\* one entry of the learning path: a plain string or a {skill, steps} dict
StrEntry == [type |-> "str", str |-> "Learn Docker", skill |-> "", steps |-> <<>>]

DictEntry ==
    [type |-> "dict", str |-> "", skill |-> "Docker",
     steps |-> <<"Learn images", "Learn compose">>]

PathShapes == {<<DictEntry>>, <<StrEntry>>}

Base == [fit_score |-> 870, missing_skills |-> <<"Docker", "Kubernetes">>]

\* JSON objects the backend may answer with (fit_score in thousandths)
Payloads ==
    {Base} \cup
    {[fit_score |-> 870, missing_skills |-> <<"Docker", "Kubernetes">>,
      recommended_learning_path |-> p] : p \in PathShapes} \cup
    {[fit_score |-> 870, missing_skills |-> <<"Docker", "Kubernetes">>,
      learning_path |-> p] : p \in PathShapes}

Statuses == {200, 404, 500}

TransportFailures == {"ConnectionError", "ReadTimeout"}

NoData == [none |-> TRUE]

\* what happens to the POST: a transport failure, or a status and a body
\* that is a JSON object or is not JSON ("Internal Server Error")
Responses ==
    {[transport |-> t, status |-> 0, json |-> FALSE, data |-> NoData] :
        t \in TransportFailures} \cup
    {[transport |-> "", status |-> 200, json |-> TRUE, data |-> d] :
        d \in Payloads} \cup
    {[transport |-> "", status |-> s, json |-> FALSE, data |-> NoData] :
        s \in Statuses} \cup
    {[transport |-> "", status |-> s, json |-> TRUE, data |-> Base] :
        s \in Statuses \ {200}}

ToStr(n) ==
    CASE n = 200 -> "200"
      [] n = 404 -> "404"
      [] n = 500 -> "500"
      [] OTHER -> "?"

Exc(type, text) == [type |-> type, text |-> text]

\* requests.post raising before any response arrives
PostRaises(r) ==
    IF r.transport # "" THEN <<Exc(r.transport, <<"no response">>)>> ELSE <<>>

\* r.raise_for_status(): HTTPError "<status> ... Error: ... for url: ..."
RaiseForStatusOmitted(r) == <<>>

RaiseForStatus(r) ==
    IF 400 <= r.status /\ r.status < 600
    THEN <<Exc("HTTPError", <<ToStr(r.status), "Error", "for url", "/evaluate">>)>>
    ELSE <<>>

\* r.json()
JsonRaises(r) == IF r.json THEN <<>> ELSE <<Exc("JSONDecodeError", <<>>)>>

\* the try block of the submit handler: post, raise_for_status, json
TryBlock(r) ==
    IF PostRaises(r) # <<>>
    THEN [exc |-> PostRaises(r), parsed |-> FALSE, data |-> NoData]
    ELSE IF RaiseForStatus(r) # <<>>
    THEN [exc |-> RaiseForStatus(r), parsed |-> FALSE, data |-> NoData]
    ELSE IF JsonRaises(r) # <<>>
    THEN [exc |-> JsonRaises(r), parsed |-> TRUE, data |-> NoData]
    ELSE [exc |-> <<>>, parsed |-> TRUE, data |-> r.data]

\* the except clauses: JSONDecodeError first, then Exception
ExceptGenericOnly(exc) == Element("error", "backend_request_failed", exc.text)

ExceptClause(exc) ==
    IF exc.type = "JSONDecodeError"
    THEN Element("error", "non_json", <<>>)
    ELSE Element("error", "backend_request_failed", exc.text)

\* the requests the handler sends for one submission: one requests.post
PostsRetry(req, r) == IF TryBlock(r).exc # <<>> THEN <<req, req>> ELSE <<req>>

Posts(req, r) == <<req>>

-----------------------------------------------------------------------------
(* Rendering *)

\* f"{fit_score * 100:.1f}%"
FormatPct(fs) ==
    CASE fs = 870 -> "87.0%"
      [] fs = 1000 -> "100.0%"
      [] OTHER -> "?"

\* for idx, step in enumerate(learning_path, 1): step['skill'], step["steps"]
RECURSIVE RenderPath(_, _, _)
RenderPath(lp, idx, acc) ==
    IF idx > Len(lp) THEN [shown |-> acc, crash |-> <<>>]
    ELSE LET step == lp[idx]
         IN IF step.type # "dict"
            THEN [shown |-> acc, crash |-> <<"TypeError">>]
            ELSE RenderPath(lp, idx + 1,
                     acc \o <<Element("markdown", "lp_entry", <<step.skill>>)>>
                         \o [i \in 1..Len(step.steps) |->
                               Element("write", "lp_step", <<step.steps[i]>>)])

\* the key the script reads the learning path from
LearningPathKey == "recommended_learning_path"

Render(data) ==
    LET head == <<Element("success", "analysis_complete", <<>>)>>
        score == IF "fit_score" \in DOMAIN data
                 THEN <<Element("metric", "fit_score",
                                <<FormatPct(data["fit_score"])>>)>>
                 ELSE <<>>
        missing_skills == Get(data, "missing_skills", <<>>)
        skills == IF missing_skills # <<>>
                  THEN <<Element("subheader", "missing_skills", <<>>),
                         Element("write", "missing_skills", missing_skills)>>
                  ELSE <<>>
        learning_path == Get(data, LearningPathKey, <<>>)
        path == IF learning_path # <<>>
                THEN RenderPath(learning_path, 1,
                         <<Element("subheader", "learning_path", <<>>)>>)
                ELSE [shown |-> <<>>, crash |-> <<>>]
        raw == IF path.crash = <<>>
               THEN <<Element("json", "raw_response", <<>>)>>
               ELSE <<>>
    IN [shown |-> head \o score \o skills \o path.shown \o raw,
        crash |-> path.crash]

-----------------------------------------------------------------------------
(* The script *)

\* if not resume_text.strip() or not jd_text.strip()
BlankNoStrip(resume_text, jd_text) == resume_text = <<>> \/ jd_text = <<>>

Blank(resume_text, jd_text) ==
    Strip(resume_text) = <<>> \/ Strip(jd_text) = <<>>

Request(resume_text, jd_text) ==
    [resume_text |-> resume_text, job_description |-> jd_text]

Quiet == [shown |-> <<>>, posts |-> <<>>, resp |-> <<>>, parsed |-> FALSE,
          crash |-> <<>>]

\* if submitted: ... (validation, POST, error handling, rendering)
OnSubmit(sub, resume_text, jd_text, r) ==
    IF ~sub THEN Quiet
    ELSE IF Blank(resume_text, jd_text)
    THEN [Quiet EXCEPT !.shown = <<Element("warning", "provide_both", <<>>)>>]
    ELSE LET t == TryBlock(r)
             req == Request(resume_text, jd_text)
         IN IF t.exc # <<>>
            THEN [shown |-> <<ExceptClause(t.exc[1])>>,
                  posts |-> Posts(req, r), resp |-> <<r>>,
                  parsed |-> t.parsed, crash |-> <<>>]
            ELSE LET page == Render(t.data)
                 IN [shown |-> page.shown,
                     posts |-> Posts(req, r), resp |-> <<r>>,
                     parsed |-> t.parsed, crash |-> page.crash]

\* the sidebar button: GET /health, success or error
PingElements(ping, up) ==
    IF ~ping THEN <<>>
    ELSE IF up THEN <<Element("success", "backend_up", <<>>)>>
    ELSE <<Element("error", "backend_not_reachable", <<>>)>>

\* what the form does without an uploaded file
NoExtract == [ret |-> <<>>, calls |-> <<>>, shown |-> <<>>]

\* resume_text as the form leaves it: the pasted text, replaced by the
\* extracted text whenever a file is uploaded
ResumeText(box, hasfile, ret) == IF hasfile THEN ret ELSE box

\* if resume_text: st.success("Text extracted ...")
FormElements(hasfile, e) ==
    IF ~hasfile THEN <<>>
    ELSE e.shown \o (IF e.ret # <<>>
                     THEN <<Element("success", "text_extracted", <<>>)>>
                     ELSE <<>>)

\* one run of the script
Script(sub, ping, up, r) ==
    LET hasfile == resume_file # <<>>
        e == IF hasfile THEN extract_text_safe(resume_file[1]) ELSE NoExtract
        h == OnSubmit(sub, ResumeText(resume_text_box, hasfile, e.ret),
                      jd_text_box, r)
    IN /\ submitted' = sub
       /\ calls' = e.calls
       /\ extracted' = IF hasfile THEN <<e.ret>> ELSE <<>>
       /\ resume_file' = IF hasfile THEN <<e.file>> ELSE <<>>
       /\ shown' = PingElements(ping, up) \o FormElements(hasfile, e)
                   \o h.shown
       /\ posts' = h.posts
       /\ resp' = h.resp
       /\ parsed' = h.parsed
       /\ crash' = h.crash
       /\ pc' = "shown"
       /\ UNCHANGED <<resume_text_box, jd_text_box>>

-----------------------------------------------------------------------------
(* Actions *)

\* the page of the previous run is gone once the user edits the form
ResetPage ==
    /\ pc' = "edit"
    /\ submitted' = FALSE
    /\ calls' = <<>>
    /\ extracted' = <<>>
    /\ shown' = <<>>
    /\ posts' = <<>>
    /\ resp' = <<>>
    /\ parsed' = FALSE
    /\ crash' = <<>>

\* file_uploader(type=["pdf", "docx"]): other extensions are refused
Accepts(name) == LowerTok(name[Len(name)]) \in {".pdf", ".docx"}

PasteResume(t) ==
    /\ t # resume_text_box
    /\ resume_text_box' = t
    /\ ResetPage
    /\ UNCHANGED <<jd_text_box, resume_file>>

PasteJD(t) ==
    /\ t # jd_text_box
    /\ jd_text_box' = t
    /\ ResetPage
    /\ UNCHANGED <<resume_text_box, resume_file>>

Upload ==
    /\ resume_file = <<>>
    /\ \E f \in Files :
          /\ Accepts(f.name)
          /\ resume_file' = <<f>>
    /\ ResetPage
    /\ UNCHANGED <<resume_text_box, jd_text_box>>

RemoveFile ==
    /\ resume_file # <<>>
    /\ resume_file' = <<>>
    /\ ResetPage
    /\ UNCHANGED <<resume_text_box, jd_text_box>>

\* the user presses "Evaluate": the script runs with submitted = True
Submit(r) == Script(TRUE, FALSE, FALSE, r)

\* the user presses "Ping backend": the script runs with submitted = False
\* (a button outside the form does not send pending form edits, so the run
\* is taken when none is pending)
Ping(up) ==
    /\ pc = "shown"
    /\ Script(FALSE, TRUE, up, CHOOSE r \in Responses : TRUE)

Init ==
    /\ resume_text_box = <<>>
    /\ jd_text_box = <<>>
    /\ resume_file = <<>>
    /\ pc = "shown"
    /\ submitted = FALSE
    /\ calls = <<>>
    /\ extracted = <<>>
    /\ shown = <<>>
    /\ posts = <<>>
    /\ resp = <<>>
    /\ parsed = FALSE
    /\ crash = <<>>

Next ==
    \/ \E t \in Texts : PasteResume(t)
    \/ \E t \in Texts : PasteJD(t)
    \/ Upload
    \/ RemoveFile
    \/ \E r \in Responses : Submit(r)
    \/ \E up \in BOOLEAN : Ping(up)

Spec == Init /\ [][Next]_vars

-----------------------------------------------------------------------------
(* extract_text_safe on its own, for any file name *)

InitExtract ==
    /\ resume_file \in {<<f>> : f \in Files}
    /\ resume_text_box = <<>>
    /\ jd_text_box = <<>>
    /\ pc = "edit"
    /\ submitted = FALSE
    /\ calls = <<>>
    /\ extracted = <<>>
    /\ shown = <<>>
    /\ posts = <<>>
    /\ resp = <<>>
    /\ parsed = FALSE
    /\ crash = <<>>

CallExtract ==
    LET e == extract_text_safe(resume_file[1])
    IN /\ resume_file' = <<e.file>>
       /\ calls' = e.calls
       /\ extracted' = <<e.ret>>
       /\ shown' = e.shown
       /\ pc' = "shown"
       /\ UNCHANGED <<resume_text_box, jd_text_box, submitted, posts, resp,
                      parsed, crash>>

NextExtract == CallExtract

SpecExtract == InitExtract /\ [][NextExtract]_vars

-----------------------------------------------------------------------------
(* Properties *)

Shows(kind, msg) ==
    \E i \in 1..Len(shown) : shown[i].kind = kind /\ shown[i].msg = msg

\* the elements of the result section
ResultShown ==
    \E i \in 1..Len(shown) :
        shown[i].msg \in {"analysis_complete", "fit_score", "missing_skills",
                          "learning_path", "lp_entry", "lp_step",
                          "raw_response"}

\* the run was a submission and has ended
Submitted == pc = "shown" /\ submitted

\* the resume text the submit handler sees
ResumeSeen == IF resume_file # <<>> THEN extracted[1] ELSE resume_text_box

\* extract_text_safe has been called on the uploaded file
Extracted == pc = "shown" /\ resume_file # <<>> /\ extracted # <<>>

\* the warning of extract_text_safe, naming the uploaded file
WarnsAbout(f) ==
    \E i \in 1..Len(shown) :
        /\ shown[i].kind = "warning"
        /\ shown[i].msg = "could_not_read"
        /\ shown[i].arg = f.name

\* C1: a submission with a resume text or a job description that is blank
\* after trimming sends no POST and shows the validation warning; every
\* request sent carries a resume text and a job description that are both
\* non-empty after trimming.
C1_BlankNeverPosted ==
    Submitted =>
        /\ (Strip(ResumeSeen) = <<>> \/ Strip(jd_text_box) = <<>>) =>
               (posts = <<>> /\ Shows("warning", "provide_both"))
        /\ \A i \in 1..Len(posts) :
               /\ Strip(posts[i].resume_text) # <<>>
               /\ Strip(posts[i].job_description) # <<>>

\* a submission with a whitespace-only job description was blocked
C1_Witness ==
    /\ Submitted
    /\ Strip(resume_text_box) # <<>>
    /\ resume_file = <<>>
    /\ jd_text_box # <<>>
    /\ Strip(jd_text_box) = <<>>
    /\ posts = <<>>
    /\ Shows("warning", "provide_both")

PdfOrder == <<"pymupdf", "pypdf2", "pdfminer">>

\* the library behind strategy r yields text that is non-empty after trimming
Matches(f, r) == ~f.data.lib[r].raises /\ Strip(f.data.lib[r].text) # <<>>

\* C2: for a .pdf upload the strategies are tried in the order PyMuPDF,
\* PyPDF2, pdfminer; one that throws or returns empty or whitespace-only
\* text is passed over, and the result is the output of the first strategy
\* whose text is non-empty after trimming.
C2_FirstNonBlankWins ==
    (Extracted /\ Lower(resume_file[1].name)[Len(resume_file[1].name)] = ".pdf")
    => LET f == resume_file[1]
           hits == {i \in 1..3 : Matches(f, PdfOrder[i])}
       IN IF hits = {}
          THEN calls = PdfOrder /\ extracted[1] = <<>>
          ELSE LET first == CHOOSE i \in hits : \A j \in hits : i <= j
               IN /\ calls = SubSeq(PdfOrder, 1, first)
                  /\ extracted[1] = Strip(f.data.lib[PdfOrder[first]].text)

\* C3: a call of extract_text_safe either returns text that is non-empty
\* after trimming and shows no warning, or returns the empty string and
\* shows a warning naming the file.
C3_TextOrWarning ==
    Extracted =>
        \/ Strip(extracted[1]) # <<>> /\ ~WarnsAbout(resume_file[1])
        \/ extracted[1] = <<>> /\ WarnsAbout(resume_file[1])

\* C4: after the uploaded file failed extraction, a submission with a
\* non-blank pasted resume text and a non-blank job description sends the
\* request with the pasted resume text.
C4_PastedTextSent ==
    (/\ Submitted
     /\ resume_file # <<>>
     /\ extracted = <<<<>>>>
     /\ WarnsAbout(resume_file[1])
     /\ Strip(resume_text_box) # <<>>
     /\ Strip(jd_text_box) # <<>>)
    => posts = <<[resume_text |-> resume_text_box,
                  job_description |-> jd_text_box]>>

\* the three failure modes of an evaluation call
Mode(r) ==
    IF r.transport # "" THEN "transport"
    ELSE IF r.status \notin 200..299 THEN "status"
    ELSE IF ~r.json THEN "malformed"
    ELSE "none"

\* the run sent the request and it failed
EvalFailed == Submitted /\ resp # <<>> /\ Mode(resp[1]) # "none"

\* the error the submit handler shows when the call meets r
ErrorFor(r) == OnSubmit(TRUE, <<"a">>, <<"a">>, r).shown[1]

\* the error element of the run
ErrorShown == shown[Len(shown)]

PathOf(d) ==
    IF "recommended_learning_path" \in DOMAIN d
    THEN d["recommended_learning_path"]
    ELSE IF "learning_path" \in DOMAIN d THEN d["learning_path"]
    ELSE <<>>

\* entry e is on the page: its text if it is a string, its skill and every
\* one of its steps if it is an object
EntryShown(e) ==
    IF e.type = "str"
    THEN \E i \in 1..Len(shown) : e.str \in Range(shown[i].arg)
    ELSE /\ \E i \in 1..Len(shown) :
               shown[i].msg = "lp_entry" /\ shown[i].arg = <<e.skill>>
         /\ \A k \in 1..Len(e.steps) :
               \E i \in 1..Len(shown) :
                   shown[i].msg = "lp_step" /\ shown[i].arg = <<e.steps[k]>>

\* C7: for a successful response every entry of the learning path is
\* rendered, whether the field is named recommended_learning_path or
\* learning_path and whether an entry is a string or a {skill, steps}
\* object, and rendering raises no error.
C7_PathRendered ==
    (Submitted /\ resp # <<>> /\ Mode(resp[1]) = "none") =>
        /\ crash = <<>>
        /\ \A k \in 1..Len(PathOf(resp[1].data)) :
               EntryShown(PathOf(resp[1].data)[k])

Unsupported(name) ==
    name[Len(name)] \notin {".pdf", ".PDF", ".docx", ".DOCX"}

\* C9: for a file name whose extension is neither .pdf nor .docx,
\* extract_text_safe returns the empty string and invokes no strategy.
C9_UnsupportedNoStrategy ==
    (Extracted /\ Unsupported(resume_file[1].name)) =>
        (calls = <<>> /\ extracted[1] = <<>>)

\* a .txt file that PyMuPDF could have read was turned down unread
C9_Witness ==
    /\ Extracted
    /\ resume_file[1].name = <<"cv", ".pdf", ".txt">>
    /\ Matches(resume_file[1], "pymupdf")
    /\ calls = <<>>
    /\ extracted[1] = <<>>

\* C10: a call of extract_text_safe leaves the stream at offset 0 with its
\* name and bytes unchanged.
C10_StreamReusable ==
    [][(resume_file # <<>> /\ resume_file' # <<>> /\ pc' = "shown") =>
           /\ resume_file'[1].pos = 0
           /\ resume_file'[1].data = resume_file[1].data
           /\ resume_file'[1].name = resume_file[1].name]_vars

\* a non-empty file has been read to its end and is back at offset 0
C10_Witness ==
    /\ Extracted
    /\ resume_file[1].data.size > 0
    /\ resume_file[1].pos = 0
    /\ WarnsAbout(resume_file[1])

====
